---- MODULE Spec2Model ----
(***************************************************************************)
(* The profiler's instrumentation middleware                              *)
(* (packages/profiler/src/instrumentation.rs): the module-level           *)
(* `Profiling` object with its one-time binding of the two measurement    *)
(* imports and its shared block store, and the per-function               *)
(* `FunctionProfiling` engine whose `feed` cuts an operator stream into   *)
(* basic blocks and injects the measurement calls.                        *)
(***************************************************************************)
EXTENDS Integers, Sequences, FiniteSets, TLC

VARIABLES
    block_store,       \* Profiling.block_store: hash -> registered code block
    indexes,           \* Profiling.indexes: Option<ProfilingIndexes>
    indexes_poisoned,  \* poison flag of the std Mutex around Profiling.indexes
    engines,           \* the FunctionProfiling built per local function index
    input,             \* per function: the operators fed so far, in order
    output,            \* per function: what feed wrote to the reader state
    registered,        \* per function: the blocks feed passed to register_block
    ended,             \* the functions whose operator stream is exhausted
    exec,              \* an execution of one instrumented function body
    last,              \* the most recent call and how it ended
    block_store_lock,  \* the worker holding the guard of Profiling.block_store
    indexes_lock,      \* the worker holding the guard of Profiling.indexes
    worker             \* per worker: the call it is in and how far it has come

vars == <<block_store, indexes, indexes_poisoned, engines, input, output,
          registered, ended, exec, last, block_store_lock, indexes_lock, worker>>

(***************************************************************************)
(* Bounds of the model.                                                    *)
(***************************************************************************)
\* local functions of the module under compilation
NumFns == 2
\* feed calls in one behaviour, over all functions
MaxFeeds == 4
\* entries of a module's import table
MaxImports == 2
\* width of the block hash in bits (the code's digest has 64)
HashBits == 4
\* operators of the single function body that is fed and then executed
MaxBody == 4
\* instructions one execution of the instrumented body runs
MaxSteps == 12

Fns == 0 .. (NumFns - 1)

(***************************************************************************)
(* Option<T>                                                               *)
(***************************************************************************)
None == [some |-> FALSE]

Some(v) == [some |-> TRUE, value |-> v]

(***************************************************************************)
(* wasmparser::Operator, as far as feed reads and builds it.               *)
(***************************************************************************)
LocalGet(i) == [op |-> "LocalGet", local_index |-> i]

I32Const(v) == [op |-> "I32Const", value |-> v]

I64Const(v) == [op |-> "I64Const", value |-> v]

Call(i) == [op |-> "Call", function_index |-> i]

Br(d) == [op |-> "Br", relative_depth |-> d]

BrIf(d) == [op |-> "BrIf", relative_depth |-> d]

BrTable(d) == [op |-> "BrTable", default |-> d]

Plain(name) == [op |-> name]

\* `x as i32` of a u32
AsI32(u) == IF u <= 2147483647 THEN u ELSE (u - 2147483647) - 2147483647 - 2

HashMod == 2 ^ HashBits

\* `x as i64` of the block hash: the same bits read as two's complement
AsI64(u) == IF u < HashMod \div 2 THEN u ELSE u - HashMod

(***************************************************************************)
(* OperatorSymbol, CodeBlock and BlockStore (crate::operators and          *)
(* crate::code_blocks).                                                    *)
(***************************************************************************)
\* OperatorSymbol::from(&Operator): the opcode without its operands
OperatorSymbol(operator) == operator.op

SymbolCode(sym) ==
    CASE sym = "LocalGet" -> 1
      [] sym = "I32Const" -> 2
      [] sym = "I32Add" -> 3
      [] sym = "If" -> 4
      [] sym = "Block" -> 5
      [] sym = "Nop" -> 6
      [] OTHER -> 7

RECURSIVE HashFrom(_, _)
HashFrom(h, syms) ==
    IF syms = <<>> THEN h
    ELSE HashFrom((h * 5 + SymbolCode(Head(syms))) % HashMod, Tail(syms))

\* CodeBlock::get_hash: a deterministic, order-sensitive digest of the symbols
get_hash(block) == HashFrom(Len(block) % HashMod, block)

\* BlockStore::new
BlockStoreNew == << >>

\* register_block keyed by the block's length instead of its hash
register_block_by_len(store, ops) ==
    LET hash == get_hash(ops)
        key == Len(ops) % HashMod
    IN  [store |-> IF key \in DOMAIN store THEN store ELSE store @@ (key :> ops),
         id    |-> hash]

\* BlockStore::register_block: insert unless the hash is present; return the hash
register_block(store, ops) ==
    LET hash == get_hash(ops)
    IN  [store |-> IF hash \in DOMAIN store THEN store ELSE store @@ (hash :> ops),
         id    |-> hash]

\* BlockStore::get_block
get_block(store, hash) ==
    IF hash \in DOMAIN store THEN Some(store[hash]) ELSE None

\* BlockStore::len
len(store) == Cardinality(DOMAIN store)

(***************************************************************************)
(* wasmer_vm::ModuleInfo.imports, as transform_module_info reads it: an    *)
(* ordered table of ((module, field, _), ImportIndex).                     *)
(***************************************************************************)
ImportFunction(i) == [kind |-> "Function", index |-> i]

ImportGlobal(i) == [kind |-> "Global", index |-> i]

ImportEntries ==
    { [module |-> "profiling", field |-> "start_measurement", index |-> ImportFunction(0)],
      [module |-> "profiling", field |-> "take_measurement", index |-> ImportFunction(1)],
      [module |-> "profiling", field |-> "start_measurement", index |-> ImportGlobal(0)],
      [module |-> "env", field |-> "take_measurement", index |-> ImportFunction(2)] }

\* the tables of up to MaxImports distinct entries, in every order
ImportTables ==
    { t \in UNION { [1 .. n -> ImportEntries] : n \in 0 .. MaxImports } :
        \A i, j \in 1 .. Len(t) : t[i] = t[j] => i = j }

\* the import table add_imports leaves behind
HookImports ==
    << [module |-> "profiling", field |-> "start_measurement", index |-> ImportFunction(0)],
       [module |-> "profiling", field |-> "take_measurement", index |-> ImportFunction(1)] >>

\* the function types add_imports declares for the two imports
start_type == [params |-> <<"I32", "I32">>, results |-> << >>]

take_type == [params |-> <<"I32", "I32", "I64">>, results |-> << >>]

\* the type of the imported function with that index in the module add_imports
\* prepared: fn1 has start_type, fn2 has take_type
ImportedFunctionType(function_index) ==
    IF function_index = HookImports[1].index.index THEN start_type ELSE take_type

\* imports.iter().find_map(..): the first function import ("profiling", field)
FindImport(imports, field) ==
    LET hits == { i \in 1 .. Len(imports) :
                    /\ imports[i].module = "profiling"
                    /\ imports[i].field = field
                    /\ imports[i].index.kind = "Function" }
    IN  IF hits = {} THEN None
        ELSE Some(imports[CHOOSE i \in hits : \A j \in hits : i <= j].index.index)

ProfilingIndexes(fn1, fn2) == [start_measurement |-> fn1, take_measurement |-> fn2]

(***************************************************************************)
(* Profiling                                                               *)
(***************************************************************************)
\* TransformModuleInfo without the is_some test: a later module rebinds
TransformModuleInfoRebinds(cur, poisoned, imports) ==
    LET fn1 == FindImport(imports, "start_measurement")
        fn2 == FindImport(imports, "take_measurement")
    IN  IF poisoned
        THEN [indexes |-> cur, poisoned |-> TRUE, result |-> "panic"]
        ELSE IF ~fn1.some \/ ~fn2.some
        THEN [indexes |-> cur, poisoned |-> TRUE, result |-> "panic"]
        ELSE [indexes |-> Some(ProfilingIndexes(fn1.value, fn2.value)),
              poisoned |-> FALSE, result |-> "ok"]

\* TransformModuleInfo with unwrap_or_default for the second lookup: a missing
\* take_measurement import binds function 0
TransformModuleInfoDefaults(cur, poisoned, imports) ==
    LET fn1 == FindImport(imports, "start_measurement")
        fn2 == FindImport(imports, "take_measurement")
    IN  IF poisoned
        THEN [indexes |-> cur, poisoned |-> TRUE, result |-> "panic"]
        ELSE IF cur.some
        THEN [indexes |-> cur, poisoned |-> TRUE, result |-> "panic"]
        ELSE IF ~fn1.some
        THEN [indexes |-> cur, poisoned |-> TRUE, result |-> "panic"]
        ELSE [indexes |-> Some(ProfilingIndexes(fn1.value,
                                                IF fn2.some THEN fn2.value ELSE 0)),
              poisoned |-> FALSE, result |-> "ok"]

\* TransformModuleInfo dropping the guard before the reuse panic: the mutex
\* stays clean
TransformModuleInfoDropsGuard(cur, poisoned, imports) ==
    LET fn1 == FindImport(imports, "start_measurement")
        fn2 == FindImport(imports, "take_measurement")
    IN  IF poisoned
        THEN [indexes |-> cur, poisoned |-> TRUE, result |-> "panic"]
        ELSE IF cur.some
        THEN [indexes |-> cur, poisoned |-> FALSE, result |-> "panic"]
        ELSE IF ~fn1.some \/ ~fn2.some
        THEN [indexes |-> cur, poisoned |-> TRUE, result |-> "panic"]
        ELSE [indexes |-> Some(ProfilingIndexes(fn1.value, fn2.value)),
              poisoned |-> FALSE, result |-> "ok"]

\* The body of transform_module_info on the binding it finds: the new binding,
\* the mutex's poison flag (a panic unwinds through the live guard) and how
\* the call ends.
TransformModuleInfo(cur, poisoned, imports) ==
    LET fn1 == FindImport(imports, "start_measurement")
        fn2 == FindImport(imports, "take_measurement")
    IN  IF poisoned
        THEN [indexes |-> cur, poisoned |-> TRUE, result |-> "panic"]
        ELSE IF cur.some
        THEN [indexes |-> cur, poisoned |-> TRUE, result |-> "panic"]
        ELSE IF ~fn1.some \/ ~fn2.some
        THEN [indexes |-> cur, poisoned |-> TRUE, result |-> "panic"]
        ELSE [indexes |-> Some(ProfilingIndexes(fn1.value, fn2.value)),
              poisoned |-> FALSE, result |-> "ok"]

\* FunctionProfiling::new
FunctionProfilingNew(idx, fn_index) ==
    [accumulated_ops |-> << >>,
     indexes |-> idx,
     block_count |-> 0,
     fn_index |-> fn_index]

\* GenerateFunctionMiddleware with unwrap_or_default: an unresolved binding
\* gives an engine bound to function 0 twice
GenerateFunctionMiddlewareDefaults(cur, poisoned, local_function_index) ==
    IF poisoned
    THEN [engine |-> None, poisoned |-> TRUE, result |-> "panic"]
    ELSE [engine |-> Some(FunctionProfilingNew(
                             IF cur.some THEN cur.value ELSE ProfilingIndexes(0, 0),
                             local_function_index)),
          poisoned |-> FALSE, result |-> "ok"]

\* The body of generate_function_middleware: lock().unwrap() fails on a
\* poisoned mutex; .clone().unwrap() panics on None while the guard is alive.
GenerateFunctionMiddleware(cur, poisoned, local_function_index) ==
    IF poisoned
    THEN [engine |-> None, poisoned |-> TRUE, result |-> "panic"]
    ELSE IF ~cur.some
    THEN [engine |-> None, poisoned |-> TRUE, result |-> "panic"]
    ELSE [engine |-> Some(FunctionProfilingNew(cur.value, local_function_index)),
          poisoned |-> FALSE, result |-> "ok"]

(***************************************************************************)
(* FunctionProfiling::feed                                                 *)
(***************************************************************************)
\* IsBranchPoint with the BrIf pattern left out of the match
IsBranchPointWithoutBrIf(operator) ==
    operator.op \in { "Loop", "End", "Else", "Br", "BrTable",
                      "Call", "CallIndirect", "Return" }

\* the first arm of the match: possible sources and targets of a branch
IsBranchPoint(operator) ==
    operator.op \in { "Loop", "End", "Else", "Br", "BrTable", "BrIf",
                      "Call", "CallIndirect", "Return" }

\* what state.extend(&[..]) and state.push_operator(..) append
Extend(ops) == [i \in 1 .. Len(ops) |-> [via |-> "extend", operator |-> ops[i]]]

PushOperator(operator) == << [via |-> "push_operator", operator |-> operator] >>

\* StartMeasurement calling the import bound for the end of a block
StartMeasurementCallsTake(self) ==
    << I32Const(AsI32(self.fn_index)),
       I32Const(AsI32(self.block_count)),
       Call(self.indexes.take_measurement) >>

\* the operators injected in front of a block
StartMeasurement(self) ==
    << I32Const(AsI32(self.fn_index)),
       I32Const(AsI32(self.block_count)),
       Call(self.indexes.start_measurement) >>

\* TakeMeasurement without the I64Const of the block id
TakeMeasurementWithoutHash(self, block_id) ==
    << I32Const(AsI32(self.fn_index)),
       I32Const(AsI32(self.block_count)),
       Call(self.indexes.take_measurement) >>

\* the operators injected behind a block
TakeMeasurement(self, block_id) ==
    << I32Const(AsI32(self.fn_index)),
       I32Const(AsI32(self.block_count)),
       I64Const(AsI64(block_id)),
       Call(self.indexes.take_measurement) >>

\* FeedBranchPoint registering a copy of the accumulator instead of taking it
FeedBranchPointKeepsOps(self, store, operator) ==
    IF self.accumulated_ops # << >>
    THEN LET r == register_block(store, self.accumulated_ops)
         IN  [self |-> self,
              store |-> r.store,
              blocks |-> << self.accumulated_ops >>,
              emitted |-> Extend(TakeMeasurement(self, r.id))]
    ELSE [self |-> self, store |-> store, blocks |-> << >>, emitted |-> << >>]

\* FeedBranchPoint without the is_empty test: every branch point closes a block
FeedBranchPointAlwaysCloses(self, store, operator) ==
    LET r == register_block(store, self.accumulated_ops)
    IN  [self |-> [self EXCEPT !.accumulated_ops = << >>],
         store |-> r.store,
         blocks |-> << self.accumulated_ops >>,
         emitted |-> Extend(TakeMeasurement(self, r.id))]

\* FeedBranchPoint advancing block_count when a block closes
FeedBranchPointCounts(self, store, operator) ==
    IF self.accumulated_ops # << >>
    THEN LET r == register_block(store, self.accumulated_ops)
         IN  [self |-> [self EXCEPT !.accumulated_ops = << >>,
                                    !.block_count = @ + 1],
              store |-> r.store,
              blocks |-> << self.accumulated_ops >>,
              emitted |-> Extend(TakeMeasurement(self, r.id))]
    ELSE [self |-> self, store |-> store, blocks |-> << >>, emitted |-> << >>]

\* FeedBranchPoint registering into a copy of the store that it drops
FeedBranchPointForgetsStore(self, store, operator) ==
    IF self.accumulated_ops # << >>
    THEN LET r == register_block(store, self.accumulated_ops)
         IN  [self |-> [self EXCEPT !.accumulated_ops = << >>],
              store |-> store,
              blocks |-> << self.accumulated_ops >>,
              emitted |-> Extend(TakeMeasurement(self, r.id))]
    ELSE [self |-> self, store |-> store, blocks |-> << >>, emitted |-> << >>]

\* the branch-point arm
FeedBranchPoint(self, store, operator) ==
    IF self.accumulated_ops # << >>
    THEN LET r == register_block(store, self.accumulated_ops)
         IN  [self |-> [self EXCEPT !.accumulated_ops = << >>],
              store |-> r.store,
              blocks |-> << self.accumulated_ops >>,
              emitted |-> Extend(TakeMeasurement(self, r.id))]
    ELSE [self |-> self, store |-> store, blocks |-> << >>, emitted |-> << >>]

\* FeedOther without the is_empty test: a start hook before every operator
FeedOtherAlwaysStarts(self, store, operator) ==
    [self |-> [self EXCEPT !.accumulated_ops = Append(@, OperatorSymbol(operator))],
     store |-> store,
     blocks |-> << >>,
     emitted |-> Extend(StartMeasurement(self))]

\* FeedOther testing is_empty after the push: no start hook is ever emitted
FeedOtherNeverStarts(self, store, operator) ==
    [self |-> [self EXCEPT !.accumulated_ops = Append(@, OperatorSymbol(operator))],
     store |-> store,
     blocks |-> << >>,
     emitted |-> << >>]

\* the arm of every other operator
FeedOther(self, store, operator) ==
    [self |-> [self EXCEPT !.accumulated_ops = Append(@, OperatorSymbol(operator))],
     store |-> store,
     blocks |-> << >>,
     emitted |-> IF self.accumulated_ops = << >>
                 THEN Extend(StartMeasurement(self))
                 ELSE << >>]

\* Feed with push_operator moved into the arms and forgotten where a block closes
FeedDropsClosingOperator(self, store, operator) ==
    LET r == IF IsBranchPoint(operator)
             THEN FeedBranchPoint(self, store, operator)
             ELSE FeedOther(self, store, operator)
    IN  IF r.blocks # << >> THEN r
        ELSE [r EXCEPT !.emitted = @ \o PushOperator(operator)]

\* feed as a whole: the match, then state.push_operator(operator)
Feed(self, store, operator) ==
    LET r == IF IsBranchPoint(operator)
             THEN FeedBranchPoint(self, store, operator)
             ELSE FeedOther(self, store, operator)
    IN  [r EXCEPT !.emitted = @ \o PushOperator(operator)]

(***************************************************************************)
(* The calls the host makes.                                               *)
(***************************************************************************)
NoExec == [status |-> "idle"]

\* a worker thread between two calls
Idle == [pc |-> "idle"]

\* a worker thread a panic has unwound: it makes no further call
Panicked == [pc |-> "panicked"]

\* where a call leaves its worker
After(result) == IF result = "panic" THEN Panicked ELSE Idle

CallResult(call, result) == [call |-> call, result |-> result]

\* Profiling::new, before any call
Init ==
    /\ block_store = BlockStoreNew
    /\ indexes = None
    /\ indexes_poisoned = FALSE
    /\ engines = << >>
    /\ input = [f \in Fns |-> << >>]
    /\ output = [f \in Fns |-> << >>]
    /\ registered = [f \in Fns |-> << >>]
    /\ ended = << >>
    /\ exec = NoExec
    /\ last = CallResult("new", "ok")
    /\ block_store_lock = None
    /\ indexes_lock = None
    /\ worker = [w \in Fns |-> Idle]

transform_module_info(module_info) ==
    LET r == TransformModuleInfo(indexes, indexes_poisoned, module_info)
    IN  /\ indexes' = r.indexes
        /\ indexes_poisoned' = r.poisoned
        /\ last' = CallResult("transform_module_info", r.result)
        /\ UNCHANGED <<block_store, engines, input, output, registered, ended, exec,
                       block_store_lock, indexes_lock, worker>>

\* the host asks for one middleware per local function
generate_function_middleware(local_function_index) ==
    /\ local_function_index \notin DOMAIN engines
    /\ LET r == GenerateFunctionMiddleware(indexes, indexes_poisoned, local_function_index)
       IN  /\ indexes_poisoned' = r.poisoned
           /\ engines' = IF r.engine.some
                         THEN engines @@ (local_function_index :> r.engine.value)
                         ELSE engines
           /\ last' = CallResult("generate_function_middleware", r.result)
    /\ UNCHANGED <<block_store, indexes, input, output, registered, ended, exec,
                   block_store_lock, indexes_lock, worker>>

\* feed with one accumulator shared by all engines
feed_on_shared_accumulator(f, operator) ==
    /\ f \in DOMAIN engines
    /\ f \notin DOMAIN ended
    /\ LET r == Feed(engines[f], block_store, operator)
       IN  /\ engines' = [g \in DOMAIN engines |->
                             IF g = f THEN r.self
                             ELSE [engines[g] EXCEPT
                                     !.accumulated_ops = r.self.accumulated_ops]]
           /\ block_store' = r.store
           /\ input' = [input EXCEPT ![f] = Append(@, operator)]
           /\ output' = [output EXCEPT ![f] = @ \o r.emitted]
           /\ registered' = [registered EXCEPT ![f] = @ \o r.blocks]
    /\ last' = CallResult("feed", "ok")
    /\ UNCHANGED <<indexes, indexes_poisoned, ended, exec,
                   block_store_lock, indexes_lock, worker>>

feed(f, operator) ==
    /\ f \in DOMAIN engines
    /\ f \notin DOMAIN ended
    /\ LET r == Feed(engines[f], block_store, operator)
       IN  /\ engines' = [engines EXCEPT ![f] = r.self]
           /\ block_store' = r.store
           /\ input' = [input EXCEPT ![f] = Append(@, operator)]
           /\ output' = [output EXCEPT ![f] = @ \o r.emitted]
           /\ registered' = [registered EXCEPT ![f] = @ \o r.blocks]
    /\ last' = CallResult("feed", "ok")
    /\ UNCHANGED <<indexes, indexes_poisoned, ended, exec,
                   block_store_lock, indexes_lock, worker>>

\* the reporting side looks a block up by its hash
get_block_call(hash) ==
    /\ last' = [call |-> "get_block", result |-> "ok", value |-> get_block(block_store, hash)]
    /\ UNCHANGED <<block_store, indexes, indexes_poisoned, engines, input, output,
                   registered, ended, exec, block_store_lock, indexes_lock, worker>>

RECURSIVE TotalFed(_)
TotalFed(fs) ==
    IF fs = {} THEN 0
    ELSE LET f == CHOOSE x \in fs : TRUE
         IN  Len(input[f]) + TotalFed(fs \ {f})

\* the blocks the reporting side asks for
ReportedBlocks ==
    UNION { [1 .. n -> {"LocalGet", "I32Const"}] : n \in 1 .. 2 }

\* the operators the module-level specification feeds
Operators ==
    { LocalGet(0), I32Const(1), I32Const(2), Plain("End") }

\* the module infos worth passing: a call on a poisoned mutex or a resolved
\* binding panics before it reads module_info, so one table stands for all
ModuleInfos ==
    IF indexes_poisoned \/ indexes.some THEN { HookImports } ELSE ImportTables

Next ==
    \/ \E module_info \in ModuleInfos : transform_module_info(module_info)
    \/ \E f \in Fns : generate_function_middleware(f)
    \/ \E f \in Fns, operator \in Operators :
          TotalFed(Fns) < MaxFeeds /\ feed(f, operator)
    \/ \E block \in ReportedBlocks : get_block_call(get_hash(block))

Spec == Init /\ [][Next]_vars

(***************************************************************************)
(* One function, from its first operator to a run of its instrumented     *)
(* body: the compiler feeds the function's operators, the stream ends (the *)
(* FunctionProfiling is dropped; FunctionMiddleware has no other method    *)
(* than feed), and the instantiated module is called.                      *)
(***************************************************************************)
\* the operators of a function body: every opcode feed names, and others
BodyOperators ==
    { LocalGet(0), I32Const(1), Plain("If"), Plain("Block"),
      Plain("Loop"), Plain("End"), Plain("Else"), Br(0), BrTable(0), BrIf(0),
      Call(2), Plain("CallIndirect"), Plain("Return") }

\* the stream of f is exhausted: every feed returned Ok(()) and nothing else
\* is called on the middleware
end_of_stream(f) ==
    /\ f \in DOMAIN engines
    /\ f \notin DOMAIN ended
    /\ ended' = ended @@ (f :> "ok")
    /\ last' = CallResult("end_of_stream", "ok")
    /\ UNCHANGED <<block_store, indexes, indexes_poisoned, engines, input, output,
                   registered, exec, block_store_lock, indexes_lock, worker>>

Opens(operator) == operator.op \in { "Block", "Loop", "If" }

\* a function body is well nested: every block, loop and if has its end,
\* else stands in an if, branches name an enclosing label, and the last
\* operator is the end of the function
RECURSIVE WellNestedFrom(_, _, _)
WellNestedFrom(stream, i, stack) ==
    IF i > Len(stream) THEN FALSE
    ELSE LET o == stream[i]
             n == Len(stack)
         IN  CASE Opens(o) -> WellNestedFrom(stream, i + 1, Append(stack, o.op))
               [] o.op = "Else" ->
                    /\ n > 0
                    /\ stack[n] = "If"
                    /\ WellNestedFrom(stream, i + 1, [stack EXCEPT ![n] = "Else"])
               [] o.op = "End" ->
                    IF n = 0 THEN i = Len(stream)
                    ELSE WellNestedFrom(stream, i + 1, SubSeq(stack, 1, n - 1))
               [] o.op \in { "Br", "BrIf" } ->
                    o.relative_depth <= n /\ WellNestedFrom(stream, i + 1, stack)
               [] o.op = "BrTable" ->
                    o.default <= n /\ WellNestedFrom(stream, i + 1, stack)
               [] OTHER -> WellNestedFrom(stream, i + 1, stack)

WellNested(stream) == WellNestedFrom(stream, 1, << >>)

\* position of the end that closes the construct whose body starts at j
RECURSIVE FindEnd(_, _, _)
FindEnd(code, j, depth) ==
    IF j > Len(code) THEN 0
    ELSE IF Opens(code[j].operator) THEN FindEnd(code, j + 1, depth + 1)
    ELSE IF code[j].operator.op = "End"
    THEN IF depth = 0 THEN j ELSE FindEnd(code, j + 1, depth - 1)
    ELSE FindEnd(code, j + 1, depth)

\* position of the else of the if whose body starts at j, 0 without one
RECURSIVE FindElse(_, _, _)
FindElse(code, j, depth) ==
    IF j > Len(code) THEN 0
    ELSE IF Opens(code[j].operator) THEN FindElse(code, j + 1, depth + 1)
    ELSE IF code[j].operator.op = "End"
    THEN IF depth = 0 THEN 0 ELSE FindElse(code, j + 1, depth - 1)
    ELSE IF code[j].operator.op = "Else" /\ depth = 0 THEN j
    ELSE FindElse(code, j + 1, depth)

\* position of the block, loop or if that label n names at j, 0 for the function
RECURSIVE FindOpener(_, _, _, _)
FindOpener(code, j, closed, n) ==
    IF j < 1 THEN 0
    ELSE IF code[j].operator.op = "End" THEN FindOpener(code, j - 1, closed + 1, n)
    ELSE IF Opens(code[j].operator)
    THEN IF closed > 0 THEN FindOpener(code, j - 1, closed - 1, n)
         ELSE IF n = 0 THEN j
         ELSE FindOpener(code, j - 1, 0, n - 1)
    ELSE FindOpener(code, j - 1, closed, n)

\* where a branch to label n at pc continues: a loop at its first
\* instruction, a block or if at its end, the function by returning (0)
BranchTarget(code, pc, n) ==
    LET o == FindOpener(code, pc - 1, 0, n)
    IN  IF o = 0 THEN 0
        ELSE IF code[o].operator.op = "Loop" THEN o + 1
        ELSE FindEnd(code, o + 1, 0)

\* the instructions that may run after the one at pc (0: the function returns)
NextPcs(code, pc) ==
    LET o == code[pc].operator
    IN  CASE o.op = "If" ->
               { pc + 1,
                 IF FindElse(code, pc + 1, 0) # 0
                 THEN FindElse(code, pc + 1, 0) + 1
                 ELSE FindEnd(code, pc + 1, 0) }
          [] o.op = "Else" -> { FindEnd(code, pc + 1, 0) }
          [] o.op = "End" -> { IF pc = Len(code) THEN 0 ELSE pc + 1 }
          [] o.op = "Br" -> { BranchTarget(code, pc, o.relative_depth) }
          [] o.op = "BrIf" -> { BranchTarget(code, pc, o.relative_depth), pc + 1 }
          [] o.op = "BrTable" -> { BranchTarget(code, pc, o.default) }
          [] o.op = "Return" -> { 0 }
          [] OTHER -> { pc + 1 }

\* the instruction at pc is an injected call of the function with that index
InjectedCall(code, pc, function_index) ==
    /\ code[pc].via = "extend"
    /\ code[pc].operator = Call(function_index)

\* the instance calls the compiled function f
exec_call(f) ==
    /\ exec.status = "idle"
    /\ f \in DOMAIN ended
    /\ WellNested(input[f])
    /\ exec' = [status |-> "running", fn |-> f, pc |-> 1, open |-> FALSE, steps |-> 0]
    /\ UNCHANGED <<block_store, indexes, indexes_poisoned, engines, input, output,
                   registered, ended, last, block_store_lock, indexes_lock, worker>>

\* one instruction of the instrumented body runs; open tells whether a
\* start_measurement call has run that no take_measurement call has followed
exec_step ==
    /\ exec.status = "running"
    /\ exec.steps < MaxSteps
    /\ LET code == output[exec.fn]
           idx == engines[exec.fn].indexes
           open == IF InjectedCall(code, exec.pc, idx.start_measurement) THEN TRUE
                   ELSE IF InjectedCall(code, exec.pc, idx.take_measurement) THEN FALSE
                   ELSE exec.open
       IN  \E next \in NextPcs(code, exec.pc) :
              exec' = [exec EXCEPT !.status = IF next = 0 THEN "returned" ELSE "running",
                                   !.pc = next,
                                   !.open = open,
                                   !.steps = @ + 1]
    /\ UNCHANGED <<block_store, indexes, indexes_poisoned, engines, input, output,
                   registered, ended, last, block_store_lock, indexes_lock, worker>>

\* the compiler transforms the module info once, then takes the function
NextFn ==
    \/ ~indexes.some /\ transform_module_info(HookImports)
    \/ generate_function_middleware(0)
    \/ \E operator \in BodyOperators :
          Len(input[0]) < MaxBody /\ feed(0, operator)
    \/ end_of_stream(0)
    \/ exec_call(0)
    \/ exec_step

SpecFn == Init /\ [][NextFn]_vars

(***************************************************************************)
(* Several workers on one Profiling: worker w compiles function w. A call  *)
(* is cut where it takes a mutex: lock() waits until the guard is free;    *)
(* the guard of block_store lives to the end of the `if` block of feed,    *)
(* the guard of indexes to the return of transform_module_info and of      *)
(* generate_function_middleware (or to the unwinding of their panic). How  *)
(* a call ended is kept with its worker.                                   *)
(***************************************************************************)
\* the operators the workers feed
WorkerOperators == { LocalGet(0), I32Const(1), Plain("End") }

\* feed comes to self.block_store.lock(): a branch point behind a block
Closes(self, operator) ==
    IsBranchPoint(operator) /\ self.accumulated_ops # << >>

At(w, pc) == worker[w].pc = pc

\* the compiler transforms the module info before it compiles the functions:
\* workers call in while the binding is unresolved, and may race
transform_begin(w) ==
    /\ worker[w] = Idle
    /\ ~indexes.some
    /\ ~indexes_poisoned
    /\ worker' = [worker EXCEPT ![w] = [pc |-> "transform_lock"]]
    /\ UNCHANGED <<block_store, indexes, indexes_poisoned, engines, input, output,
                   registered, ended, exec, last, block_store_lock, indexes_lock>>

\* self.indexes.lock(): on a poisoned mutex the guard comes inside the error
transform_acquire(w) ==
    /\ At(w, "transform_lock")
    /\ indexes_lock = None
    /\ indexes_lock' = Some(w)
    /\ worker' = [worker EXCEPT ![w] = [pc |-> "transform_locked"]]
    /\ UNCHANGED <<block_store, indexes, indexes_poisoned, engines, input, output,
                   registered, ended, exec, last, block_store_lock>>

\* .unwrap() and the rest of transform_module_info, to the drop of the guard
transform_body(w) ==
    /\ At(w, "transform_locked")
    /\ LET r == TransformModuleInfo(indexes, indexes_poisoned, HookImports)
       IN  /\ indexes' = r.indexes
           /\ indexes_poisoned' = r.poisoned
           /\ worker' = [worker EXCEPT ![w] = After(r.result)]
    /\ indexes_lock' = None
    /\ UNCHANGED <<block_store, engines, input, output, registered, ended, exec,
                   last, block_store_lock>>

generate_begin(w) ==
    /\ worker[w] = Idle
    /\ w \notin DOMAIN engines
    /\ worker' = [worker EXCEPT ![w] = [pc |-> "generate_lock"]]
    /\ UNCHANGED <<block_store, indexes, indexes_poisoned, engines, input, output,
                   registered, ended, exec, last, block_store_lock, indexes_lock>>

generate_acquire(w) ==
    /\ At(w, "generate_lock")
    /\ indexes_lock = None
    /\ indexes_lock' = Some(w)
    /\ worker' = [worker EXCEPT ![w] = [pc |-> "generate_locked"]]
    /\ UNCHANGED <<block_store, indexes, indexes_poisoned, engines, input, output,
                   registered, ended, exec, last, block_store_lock>>

\* .unwrap().clone().unwrap(), FunctionProfiling::new and the drop of the guard
generate_body(w) ==
    /\ At(w, "generate_locked")
    /\ LET r == GenerateFunctionMiddleware(indexes, indexes_poisoned, w)
       IN  /\ indexes_poisoned' = r.poisoned
           /\ engines' = IF r.engine.some THEN engines @@ (w :> r.engine.value)
                         ELSE engines
           /\ worker' = [worker EXCEPT ![w] = After(r.result)]
    /\ indexes_lock' = None
    /\ UNCHANGED <<block_store, indexes, input, output, registered, ended, exec,
                   last, block_store_lock>>

\* feed is called: an operator that closes no block runs to its return
\* without a lock, one that closes a block comes to block_store.lock()
feed_begin(w, operator) ==
    /\ worker[w] = Idle
    /\ w \in DOMAIN engines
    /\ IF Closes(engines[w], operator)
       THEN /\ worker' = [worker EXCEPT ![w] = [pc |-> "feed_lock", operator |-> operator]]
            /\ input' = [input EXCEPT ![w] = Append(@, operator)]
            /\ UNCHANGED <<block_store, indexes, indexes_poisoned, engines, output,
                           registered, ended, exec, last, block_store_lock,
                           indexes_lock>>
       ELSE feed(w, operator)

\* feed_acquire without waiting for the guard
feed_acquire_without_waiting(w) ==
    /\ At(w, "feed_lock")
    /\ block_store_lock' = Some(w)
    /\ worker' = [worker EXCEPT ![w].pc = "feed_locked"]
    /\ UNCHANGED <<block_store, indexes, indexes_poisoned, engines, input, output,
                   registered, ended, exec, last, indexes_lock>>

\* self.block_store.lock().unwrap()
feed_acquire(w) ==
    /\ At(w, "feed_lock")
    /\ block_store_lock = None
    /\ block_store_lock' = Some(w)
    /\ worker' = [worker EXCEPT ![w].pc = "feed_locked"]
    /\ UNCHANGED <<block_store, indexes, indexes_poisoned, engines, input, output,
                   registered, ended, exec, last, indexes_lock>>

\* under the guard: register_block(take(accumulated_ops)) and state.extend
feed_register(w) ==
    /\ At(w, "feed_locked")
    /\ LET r == FeedBranchPoint(engines[w], block_store, worker[w].operator)
       IN  /\ engines' = [engines EXCEPT ![w] = r.self]
           /\ block_store' = r.store
           /\ output' = [output EXCEPT ![w] = @ \o r.emitted]
           /\ registered' = [registered EXCEPT ![w] = @ \o r.blocks]
    /\ worker' = [worker EXCEPT ![w].pc = "feed_registered"]
    /\ UNCHANGED <<indexes, indexes_poisoned, input, ended, exec, last,
                   block_store_lock, indexes_lock>>

\* feed_release forgetting the guard (mem::forget): the mutex stays locked
feed_release_forgets_guard(w) ==
    /\ At(w, "feed_registered")
    /\ output' = [output EXCEPT ![w] = @ \o PushOperator(worker[w].operator)]
    /\ worker' = [worker EXCEPT ![w] = After("ok")]
    /\ UNCHANGED <<block_store, indexes, indexes_poisoned, engines, input,
                   registered, ended, exec, last, block_store_lock, indexes_lock>>

\* the guard drops at the end of the `if` block; push_operator; Ok(())
feed_release(w) ==
    /\ At(w, "feed_registered")
    /\ block_store_lock' = None
    /\ output' = [output EXCEPT ![w] = @ \o PushOperator(worker[w].operator)]
    /\ worker' = [worker EXCEPT ![w] = After("ok")]
    /\ UNCHANGED <<block_store, indexes, indexes_poisoned, engines, input,
                   registered, ended, exec, last, indexes_lock>>

\* the next step of the call worker w is in
worker_step(w) ==
    \/ transform_acquire(w)
    \/ transform_body(w)
    \/ generate_acquire(w)
    \/ generate_body(w)
    \/ feed_acquire(w)
    \/ feed_register(w)
    \/ feed_release(w)

NextMt ==
    \/ \E w \in Fns : transform_begin(w)
    \/ \E w \in Fns : generate_begin(w)
    \/ \E w \in Fns, operator \in WorkerOperators :
          TotalFed(Fns) < MaxFeeds /\ feed_begin(w, operator)
    \/ \E w \in Fns : worker_step(w)

SpecMt == Init /\ [][NextMt]_vars

\* the scheduler lets every worker that can take a step take one
FairSpecMt == SpecMt /\ \A w \in Fns : WF_vars(worker_step(w))

(***************************************************************************)
(* Vocabulary of the properties.                                           *)
(***************************************************************************)
\* the boundary instructions: loop entry, end, else, the three branches, the
\* two calls and return
BoundaryOpcodes ==
    { "Loop", "End", "Else", "Br", "BrTable", "BrIf", "Call", "CallIndirect", "Return" }

IsBoundary(operator) == operator.op \in BoundaryOpcodes

Injected(x) == x.via = "extend"

PushedBody(x) == x.via = "push_operator" /\ ~IsBoundary(x.operator)

PushedBoundary(x) == x.via = "push_operator" /\ IsBoundary(x.operator)

\* out[p .. p+2] is an injected call of start_measurement(fn, seq)
StartHookAt(out, p, idx) ==
    /\ p >= 1
    /\ p + 2 <= Len(out)
    /\ \A i \in p .. p + 2 : Injected(out[i])
    /\ out[p].operator.op = "I32Const"
    /\ out[p + 1].operator.op = "I32Const"
    /\ out[p + 2].operator = Call(idx.start_measurement)

\* out[p .. p+3] is an injected call of take_measurement(fn, seq, hash)
EndHookAt(out, p, idx) ==
    /\ p >= 1
    /\ p + 3 <= Len(out)
    /\ \A i \in p .. p + 3 : Injected(out[i])
    /\ out[p].operator.op = "I32Const"
    /\ out[p + 1].operator.op = "I32Const"
    /\ out[p + 2].operator.op = "I64Const"
    /\ out[p + 3].operator = Call(idx.take_measurement)

\* the stream with every injected hook-call sequence deleted
RECURSIVE StripHooksFrom(_, _, _)
StripHooksFrom(out, p, idx) ==
    IF p > Len(out) THEN << >>
    ELSE IF StartHookAt(out, p, idx) THEN StripHooksFrom(out, p + 3, idx)
    ELSE IF EndHookAt(out, p, idx) THEN StripHooksFrom(out, p + 4, idx)
    ELSE << out[p].operator >> \o StripHooksFrom(out, p + 1, idx)

StripHooks(out, idx) == StripHooksFrom(out, 1, idx)

HasStartHook(out, idx) == \E p \in 1 .. Len(out) : StartHookAt(out, p, idx)

HasEndHook(out, idx) == \E p \in 1 .. Len(out) : EndHookAt(out, p, idx)

(***************************************************************************)
(* C1. Semantics preservation: for every function, deleting every injected *)
(* hook-call sequence (the constant pushes and the call of                 *)
(* start_measurement or take_measurement) from the stream feed emitted     *)
(* leaves exactly the operators that were fed, in the order they were fed. *)
(***************************************************************************)
SemanticsPreserved ==
    \A f \in Fns :
        IF f \in DOMAIN engines
        THEN StripHooks(output[f], engines[f].indexes) = input[f]
        ELSE output[f] = << >> /\ input[f] = << >>

\* a stream with a whole instrumented block and something after it
SemanticsPreservedWitness ==
    \E f \in DOMAIN engines :
        /\ Len(input[f]) >= 3
        /\ HasStartHook(output[f], engines[f].indexes)
        /\ HasEndHook(output[f], engines[f].indexes)

(***************************************************************************)
(* C2. Block closure: wherever the emitted stream shows a block closed (a  *)
(* boundary instruction that follows a body instruction of the input),     *)
(* exactly one end-hook call stands immediately before that boundary       *)
(* instruction, exactly one start-hook call stands immediately before the  *)
(* block's first body instruction, no hook call stands inside the block,   *)
(* and the two calls carry the same function id (the engine's) and the     *)
(* same block-sequence value.                                              *)
(***************************************************************************)
\* first position of the run of pushed body instructions that ends at q
RECURSIVE RunStart(_, _)
RunStart(out, q) ==
    IF q > 1 /\ PushedBody(out[q - 1]) THEN RunStart(out, q - 1) ELSE q

BlockClosedAt(out, p) ==
    /\ PushedBoundary(out[p])
    /\ \E q \in 1 .. p - 1 :
          /\ PushedBody(out[q])
          /\ \A r \in q + 1 .. p - 1 : Injected(out[r])

ClosedBlockWellFormed(out, p, self) ==
    /\ p - 5 >= 1
    /\ EndHookAt(out, p - 4, self.indexes)
    /\ PushedBody(out[p - 5])
    /\ LET s == RunStart(out, p - 5)
       IN  /\ s >= 4
           /\ StartHookAt(out, s - 3, self.indexes)
           /\ (s - 4 >= 1 => PushedBoundary(out[s - 4]))
           /\ out[s - 3].operator = out[p - 4].operator
           /\ out[s - 2].operator = out[p - 3].operator
           /\ out[s - 3].operator = I32Const(self.fn_index)

BlockClosure ==
    \A f \in DOMAIN engines :
        \A p \in 1 .. Len(output[f]) :
            BlockClosedAt(output[f], p) => ClosedBlockWellFormed(output[f], p, engines[f])

\* a function with a block of two instructions closed and a second block closed
BlockClosureWitness ==
    \E f \in DOMAIN engines :
        \E p, q \in 1 .. Len(output[f]) :
            /\ p < q
            /\ BlockClosedAt(output[f], p)
            /\ BlockClosedAt(output[f], q)

(***************************************************************************)
(* C5. Binding singleton: from a fresh Profiling, in every order of        *)
(* transform_module_info calls (each runs under the indexes mutex from its *)
(* first line to its return), a call succeeds only on an unresolved        *)
(* binding and resolves it; once the binding is resolved no step changes   *)
(* the recorded indices, so at most one call succeeds; and every call made *)
(* while the binding is resolved ends in a panic.                          *)
(***************************************************************************)
BindingSingleton ==
    [][ /\ (indexes.some => indexes' = indexes)
        /\ (last'.call = "transform_module_info" /\ indexes.some
              => last'.result = "panic")
        /\ (last'.call = "transform_module_info" /\ last'.result = "ok"
              => ~indexes.some /\ indexes'.some) ]_vars

\* a second transform_module_info was made on a resolved binding and panicked
BindingSingletonWitness ==
    /\ indexes.some
    /\ last = CallResult("transform_module_info", "panic")

(***************************************************************************)
(* C6. Missing import: a transform_module_info call whose import table     *)
(* lacks a function import ("profiling", "start_measurement") or           *)
(* ("profiling", "take_measurement") ends in a panic and records nothing:  *)
(* the binding is left as it was, and an unresolved binding stays          *)
(* unresolved, never half set. After such a failure on a fresh Profiling   *)
(* the binding stays unresolved for good, no FunctionProfiling is ever     *)
(* built and no operator is ever emitted.                                  *)
(***************************************************************************)
HasFunctionImport(imports, field) ==
    \E i \in 1 .. Len(imports) :
        imports[i] = [module |-> "profiling", field |-> field,
                      index |-> ImportFunction(imports[i].index.index)]

LacksHookImport(imports) ==
    \/ ~HasFunctionImport(imports, "start_measurement")
    \/ ~HasFunctionImport(imports, "take_measurement")

NothingInstrumented ==
    /\ engines = << >>
    /\ \A f \in Fns : output[f] = << >>

\* the state a failed first resolution leaves behind
FailedResolution == ~indexes.some /\ indexes_poisoned

MissingImportIsFatal ==
    /\ [](~indexes.some => NothingInstrumented)
    /\ [][ /\ (last'.call = "transform_module_info" /\ (indexes.some \/ indexes_poisoned)
                 => last'.result = "panic" /\ indexes' = indexes)
           /\ (last'.call = "transform_module_info" /\ ~indexes.some /\ ~indexes_poisoned
                 => \A m \in ImportTables :
                       LacksHookImport(m) /\ transform_module_info(m)
                          => /\ last'.result = "panic"
                             /\ indexes' = None
                             /\ FailedResolution')
           /\ (FailedResolution => FailedResolution' /\ NothingInstrumented') ]_vars

\* a resolution has just failed and left the binding unresolved
MissingImportIsFatalWitness ==
    /\ FailedResolution
    /\ last = CallResult("transform_module_info", "panic")

(***************************************************************************)
(* The blocks of a stream: its maximal non-empty runs of consecutive body  *)
(* instructions that a boundary instruction has closed, each as the        *)
(* sequence of its opcodes.                                                *)
(***************************************************************************)
RECURSIVE ClosedRunsFrom(_, _, _)
ClosedRunsFrom(stream, i, run) ==
    IF i > Len(stream) THEN << >>
    ELSE IF IsBoundary(stream[i])
    THEN (IF run = << >> THEN << >> ELSE << run >>) \o ClosedRunsFrom(stream, i + 1, << >>)
    ELSE ClosedRunsFrom(stream, i + 1, Append(run, stream[i].op))

ClosedRuns(stream) == ClosedRunsFrom(stream, 1, << >>)

Range(s) == { s[i] : i \in 1 .. Len(s) }

\* the bodies of all blocks closed so far, over all functions
ClosedBodies == UNION { Range(ClosedRuns(input[f])) : f \in Fns }

NoCollision(bodies) ==
    \A a, b \in bodies : get_hash(a) = get_hash(b) => a = b

StoredBlocks == { block_store[h] : h \in DOMAIN block_store }

\* the step is a feed call on f
FeedStep(f) == input'[f] # input[f]

(***************************************************************************)
(* C8. Deduplication: as long as no two closed block bodies collide in     *)
(* their hash, the store holds exactly the distinct symbol sequences of    *)
(* the blocks closed so far over all functions, each once, under its hash. *)
(* A feed call that closes a block whose symbol sequence is already stored *)
(* (from the same or another function, with whatever operands) leaves the  *)
(* store as it is and passes the stored block's hash to the end hook.      *)
(***************************************************************************)
Deduplication ==
    /\ [](NoCollision(ClosedBodies) =>
            /\ StoredBlocks = ClosedBodies
            /\ len(block_store) = Cardinality(ClosedBodies)
            /\ \A h \in DOMAIN block_store : get_hash(block_store[h]) = h)
    /\ [][ \A f \in Fns :
             FeedStep(f) /\ Len(ClosedRuns(input'[f])) > Len(ClosedRuns(input[f])) =>
               LET runs == ClosedRuns(input'[f])
                   body == runs[Len(runs)]
                   out  == output'[f]
               IN  \A h \in DOMAIN block_store :
                     block_store[h] = body =>
                       /\ block_store' = block_store
                       /\ Len(out) >= 3
                       /\ out[Len(out) - 2] =
                            [via |-> "extend", operator |-> I64Const(AsI64(h))] ]_vars

\* two functions have each closed a block of the same opcodes but different
\* operands, and the store holds one block
DeduplicationWitness ==
    \E f, g \in Fns :
        /\ f # g
        /\ ClosedRuns(input[f]) # << >>
        /\ ClosedRuns(input[f]) = ClosedRuns(input[g])
        /\ input[f] # input[g]
        /\ len(block_store) = 1

(***************************************************************************)
(* C9. Idempotent lookup: in every store the program reaches, registering  *)
(* a non-empty symbol sequence S and looking up the hash that              *)
(* register_block returned yields S, unless the store already holds a      *)
(* different block under that hash; every block closed so far is found     *)
(* under its hash; and a get_block call leaves the store as it is.         *)
(***************************************************************************)
IdempotentLookup ==
    /\ [](\A S \in ReportedBlocks :
            LET r == register_block(block_store, S)
            IN  (get_hash(S) \in DOMAIN block_store => block_store[get_hash(S)] = S)
                  => get_block(r.store, r.id) = Some(S))
    /\ [](NoCollision(ClosedBodies) =>
            \A S \in ClosedBodies : get_block(block_store, get_hash(S)) = Some(S))
    /\ [][ last'.call = "get_block" => block_store' = block_store ]_vars

\* a block has been closed and then looked up and found
IdempotentLookupWitness ==
    /\ last.call = "get_block"
    /\ last.value.some
    /\ last.value.value \in ClosedBodies

(***************************************************************************)
(* C10. Empty-accumulator pass-through: a feed call that receives a        *)
(* boundary instruction while the accumulator is empty (at the start of    *)
(* the stream or directly after another boundary instruction) emits that   *)
(* instruction and nothing else, registers no block and leaves the store   *)
(* unchanged; and the store never holds a zero-length block.               *)
(***************************************************************************)
AccumulatorEmpty(f) ==
    \/ engines[f].accumulated_ops = << >>
    \/ input[f] = << >>
    \/ IsBoundary(input[f][Len(input[f])])

EmptyPassThrough ==
    /\ [](\A h \in DOMAIN block_store : block_store[h] # << >>)
    /\ [][ \A f \in DOMAIN engines :
             /\ FeedStep(f)
             /\ IsBoundary(input'[f][Len(input'[f])])
             /\ AccumulatorEmpty(f)
             => /\ output'[f] = output[f] \o PushOperator(input'[f][Len(input'[f])])
                /\ block_store' = block_store
                /\ registered' = registered ]_vars

\* two boundary instructions in a row have been fed to a function
EmptyPassThroughWitness ==
    \E f \in DOMAIN engines :
        /\ Len(input[f]) >= 2
        /\ IsBoundary(input[f][Len(input[f])])
        /\ IsBoundary(input[f][Len(input[f]) - 1])
        /\ Len(output[f]) = Len(input[f])

(***************************************************************************)
(* C3. Basic-block integrity at run time: in every execution of an         *)
(* instrumented, well nested function body, a start-hook call never runs   *)
(* while an earlier start-hook call still waits for its end-hook call, and *)
(* the function is never left while one waits.                             *)
(***************************************************************************)
BasicBlockIntegrity ==
    /\ (exec.status = "running" /\ exec.open
          => ~InjectedCall(output[exec.fn], exec.pc,
                           engines[exec.fn].indexes.start_measurement))
    /\ (exec.status = "returned" => ~exec.open)

(***************************************************************************)
(* C4. Malformed-input rejection: when a function's stream is exhausted    *)
(* while its accumulator is non-empty (the last operator fed was a body    *)
(* instruction), the end of the stream is reported as an error.            *)
(***************************************************************************)
MalformedInputRejected ==
    \A f \in DOMAIN ended :
        engines[f].accumulated_ops # << >> => ended[f] = "error"

(***************************************************************************)
(* C7. Segmentation correctness: for every stream that ends with a         *)
(* boundary instruction, the blocks feed passed to register_block are, in  *)
(* order, the maximal non-empty runs of consecutive body instructions of   *)
(* the stream, each as its opcodes, the boundary set being Loop, End,      *)
(* Else, Br, BrTable, BrIf, Call, CallIndirect and Return; and the stream  *)
(* local.get, i32.const, i32.mul, call, i32.const, i32.sub, end gives the  *)
(* two blocks [LocalGet, I32Const, I32Mul] and [I32Const, I32Sub].         *)
(***************************************************************************)
RECURSIVE MaximalRunsFrom(_, _, _)
MaximalRunsFrom(stream, i, run) ==
    IF i > Len(stream) THEN (IF run = << >> THEN << >> ELSE << run >>)
    ELSE IF stream[i].op \in BoundaryOpcodes
    THEN (IF run = << >> THEN << >> ELSE << run >>) \o MaximalRunsFrom(stream, i + 1, << >>)
    ELSE MaximalRunsFrom(stream, i + 1, Append(run, stream[i].op))

MaximalRuns(stream) == MaximalRunsFrom(stream, 1, << >>)

\* the blocks a fresh engine registers when the whole stream is fed to it
RECURSIVE BlocksFedFrom(_, _, _, _)
BlocksFedFrom(stream, i, self, store) ==
    IF i > Len(stream) THEN << >>
    ELSE LET r == Feed(self, store, stream[i])
         IN  r.blocks \o BlocksFedFrom(stream, i + 1, r.self, r.store)

MultisubBody ==
    << LocalGet(0), I32Const(2), Plain("I32Mul"), Call(2),
       I32Const(1), Plain("I32Sub"), Plain("End") >>

SegmentationCorrect ==
    /\ \A f \in DOMAIN engines :
          input[f] # << >> /\ IsBoundary(input[f][Len(input[f])])
             => registered[f] = MaximalRuns(input[f])
    /\ \A f \in DOMAIN engines :
          BlocksFedFrom(MultisubBody, 1, FunctionProfilingNew(engines[f].indexes, f),
                        BlockStoreNew)
             = << <<"LocalGet", "I32Const", "I32Mul">>, <<"I32Const", "I32Sub">> >>

\* a stream of two blocks, the first closed by a conditional branch
SegmentationCorrectWitness ==
    \E f \in DOMAIN engines :
        /\ Len(registered[f]) = 2
        /\ Len(input[f]) = 4
        /\ input[f][2] = BrIf(0)
        /\ IsBoundary(input[f][4])

(***************************************************************************)
(* C11. Shared binding: once transform_module_info has succeeded, every    *)
(* FunctionProfiling that generate_function_middleware has built, for any  *)
(* number of functions and in any order of the calls, holds the            *)
(* start_measurement and take_measurement indices that were resolved, and  *)
(* every injected call targets one of them: the call behind two i32        *)
(* constants targets start_measurement, the call behind the i64 constant   *)
(* targets take_measurement.                                               *)
(***************************************************************************)
InjectedCallAt(out, p) == Injected(out[p]) /\ out[p].operator.op = "Call"

SharedBinding ==
    \A f \in DOMAIN engines :
        /\ indexes.some
        /\ engines[f].indexes = indexes.value
        /\ \A p \in 1 .. Len(output[f]) :
              InjectedCallAt(output[f], p) =>
                 /\ p >= 3
                 /\ output[f][p].operator.function_index =
                       IF output[f][p - 1].operator.op = "I64Const"
                       THEN indexes.value.take_measurement
                       ELSE indexes.value.start_measurement

\* every function has an engine, and each engine has emitted both hooks
SharedBindingWitness ==
    /\ DOMAIN engines = Fns
    /\ \A f \in Fns : \E p, q \in 1 .. Len(output[f]) :
          /\ InjectedCallAt(output[f], p)
          /\ InjectedCallAt(output[f], q)
          /\ output[f][p].operator # output[f][q].operator

(***************************************************************************)
(* C12. Stack neutrality of the injected hooks: every injected sequence    *)
(* pushes exactly the operands its call consumes (two i32 for the start    *)
(* hook, two i32 and one i64 for the end hook, as the imports are typed)   *)
(* and the call returns nothing, so at every original instruction nothing  *)
(* injected is left on the operand stack and nothing below the injected    *)
(* operands was consumed.                                                  *)
(***************************************************************************)
\* walks the emitted stream with the operands injected instructions have
\* pushed and not yet consumed
RECURSIVE StackNeutralFrom(_, _, _)
StackNeutralFrom(out, p, extra) ==
    IF p > Len(out) THEN extra = << >>
    ELSE IF ~Injected(out[p]) THEN extra = << >> /\ StackNeutralFrom(out, p + 1, << >>)
    ELSE LET o == out[p].operator
             n == Len(extra)
         IN  CASE o.op = "I32Const" -> StackNeutralFrom(out, p + 1, Append(extra, "I32"))
               [] o.op = "I64Const" -> StackNeutralFrom(out, p + 1, Append(extra, "I64"))
               [] o.op = "Call" ->
                    LET t == ImportedFunctionType(o.function_index)
                        k == Len(t.params)
                    IN  /\ n >= k
                        /\ SubSeq(extra, n - k + 1, n) = t.params
                        /\ t.results = << >>
                        /\ StackNeutralFrom(out, p + 1, SubSeq(extra, 1, n - k))
               [] OTHER -> FALSE

StackNeutrality ==
    \A f \in DOMAIN engines :
        /\ StackNeutralFrom(output[f], 1, << >>)
        /\ \A p \in 1 .. Len(output[f]) :
              /\ StartHookAt(output[f], p, engines[f].indexes)
                    => ImportedFunctionType(output[f][p + 2].operator.function_index)
                          = start_type
              /\ EndHookAt(output[f], p, engines[f].indexes)
                    => ImportedFunctionType(output[f][p + 3].operator.function_index)
                          = take_type

\* a stream in which an end hook is directly followed by a boundary
\* instruction and a start hook by a body instruction
StackNeutralityWitness ==
    \E f \in DOMAIN engines :
        \E p, q \in 1 .. Len(output[f]) :
            /\ StartHookAt(output[f], p, engines[f].indexes)
            /\ PushedBody(output[f][p + 3])
            /\ EndHookAt(output[f], q, engines[f].indexes)
            /\ p < q
            /\ q + 4 <= Len(output[f])
            /\ PushedBoundary(output[f][q + 4])

(***************************************************************************)
(* C14. The block-sequence counter never advances: block_count of every    *)
(* FunctionProfiling is 0 in every reachable state, and every start hook   *)
(* and every end hook emitted, for every block of every function, carries  *)
(* the block-sequence constant 0.                                          *)
(***************************************************************************)
BlockCountNeverAdvances ==
    \A f \in DOMAIN engines :
        /\ engines[f].block_count = 0
        /\ \A p \in 1 .. Len(output[f]) :
              \/ StartHookAt(output[f], p, engines[f].indexes)
              \/ EndHookAt(output[f], p, engines[f].indexes)
              => output[f][p + 1].operator = I32Const(0)

\* a function has closed its second block: two start hooks and two end hooks
BlockCountNeverAdvancesWitness ==
    \E f \in DOMAIN engines :
        /\ Len(registered[f]) = 2
        /\ Len(output[f]) = Len(input[f]) + 14

(***************************************************************************)
(* C15. Every emitted hash is resolvable: for every end hook in a stream   *)
(* feed emitted, the store holds an entry under the hash the hook carries, *)
(* from the state in which the hook is emitted on (entries are never       *)
(* removed or replaced), and unless two closed bodies collide that entry   *)
(* is the opcode sequence of the body instructions emitted between the     *)
(* matching start hook and this end hook.                                  *)
(***************************************************************************)
\* the block hash read back from the i64 operand of take_measurement
AsU64(i) == IF i < 0 THEN i + HashMod ELSE i

\* the opcodes of out[s .. e]
SymbolsBetween(out, s, e) ==
    [i \in 1 .. (e - s + 1) |-> OperatorSymbol(out[s + i - 1].operator)]

EmittedHashResolvable ==
    /\ [](\A f \in DOMAIN engines :
            \A p \in 1 .. Len(output[f]) :
               EndHookAt(output[f], p, engines[f].indexes) =>
                  LET out == output[f]
                      h == AsU64(out[p + 2].operator.value)
                      s == RunStart(out, p - 1)
                  IN  /\ p > 1
                      /\ PushedBody(out[p - 1])
                      /\ StartHookAt(out, s - 3, engines[f].indexes)
                      /\ h \in DOMAIN block_store
                      /\ (NoCollision(ClosedBodies) =>
                             block_store[h] = SymbolsBetween(out, s, p - 1)))
    /\ [][ \A h \in DOMAIN block_store :
              h \in DOMAIN block_store' /\ block_store'[h] = block_store[h] ]_vars

\* an end hook carries a hash with the top bit set, its block has two
\* instructions, and the function was fed on after it
EmittedHashResolvableWitness ==
    \E f \in DOMAIN engines :
        \E p \in 1 .. Len(output[f]) :
            /\ EndHookAt(output[f], p, engines[f].indexes)
            /\ output[f][p + 2].operator.value < 0
            /\ Len(block_store[AsU64(output[f][p + 2].operator.value)]) = 2
            /\ p + 4 < Len(output[f])

(***************************************************************************)
(* C16. Per-function state isolation: a feed call on one function's        *)
(* engine changes, of all engines, only that engine's accumulator (and the *)
(* shared store); every other engine and its stream, and this engine's     *)
(* block counter, function id and binding indices, stay as they are; and   *)
(* the function id every hook of an engine carries is the id the engine    *)
(* was constructed with.                                                   *)
(***************************************************************************)
StateIsolation ==
    /\ [](\A f \in DOMAIN engines :
            /\ engines[f].fn_index = f
            /\ \A p \in 1 .. Len(output[f]) :
                  \/ StartHookAt(output[f], p, engines[f].indexes)
                  \/ EndHookAt(output[f], p, engines[f].indexes)
                  => output[f][p].operator = I32Const(AsI32(f)))
    /\ [][ \A f \in Fns :
             FeedStep(f) =>
               /\ DOMAIN engines' = DOMAIN engines
               /\ \A g \in DOMAIN engines \ {f} :
                     /\ engines'[g] = engines[g]
                     /\ input'[g] = input[g]
                     /\ output'[g] = output[g]
                     /\ registered'[g] = registered[g]
               /\ engines'[f].block_count = engines[f].block_count
               /\ engines'[f].fn_index = engines[f].fn_index
               /\ engines'[f].indexes = engines[f].indexes
               /\ indexes' = indexes
               /\ indexes_poisoned' = indexes_poisoned ]_vars

\* two engines are in the middle of different blocks
StateIsolationWitness ==
    \E f, g \in DOMAIN engines :
        /\ f # g
        /\ engines[f].accumulated_ops # << >>
        /\ engines[g].accumulated_ops # << >>
        /\ engines[f].accumulated_ops # engines[g].accumulated_ops
        /\ last = CallResult("feed", "ok")

(***************************************************************************)
(* C17. Hook alternation: in the stream emitted for one function the       *)
(* injected calls alternate start_measurement, take_measurement, ...,      *)
(* beginning with start_measurement; and after every feed call the         *)
(* accumulator is non-empty exactly when one more start hook than end      *)
(* hooks has been emitted, and empty exactly when as many.                 *)
(***************************************************************************)
\* the injected calls of a stream, in order
HookCalls(out) == SelectSeq(out, LAMBDA x : Injected(x) /\ x.operator.op = "Call")

CountCalls(calls, function_index) ==
    Cardinality({ i \in 1 .. Len(calls) : calls[i].operator = Call(function_index) })

HookAlternation ==
    \A f \in DOMAIN engines :
        LET calls == HookCalls(output[f])
            idx == engines[f].indexes
            starts == CountCalls(calls, idx.start_measurement)
            ends == CountCalls(calls, idx.take_measurement)
        IN  /\ \A i \in 1 .. Len(calls) :
                  calls[i].operator = Call(IF i % 2 = 1 THEN idx.start_measurement
                                           ELSE idx.take_measurement)
            /\ (engines[f].accumulated_ops # << >>) = (starts = ends + 1)
            /\ (engines[f].accumulated_ops = << >>) = (starts = ends)

\* start, end, start: the second block of a function is open
HookAlternationWitness ==
    \E f \in DOMAIN engines :
        /\ Len(HookCalls(output[f])) = 3
        /\ engines[f].accumulated_ops # << >>

(***************************************************************************)
(* C18. No engine before resolution: a generate_function_middleware call   *)
(* made while the binding is unresolved ends in a panic and builds no      *)
(* FunctionProfiling, so every engine that exists holds resolved indices   *)
(* and no hook is ever emitted for an unresolved binding.                  *)
(***************************************************************************)
NoEngineBeforeResolution ==
    /\ [](~indexes.some => NothingInstrumented)
    /\ [](\A f \in DOMAIN engines : engines[f].indexes = indexes.value)
    /\ [][ last'.call = "generate_function_middleware" /\ ~indexes.some
             => /\ last'.result = "panic"
                /\ engines' = engines
                /\ output' = output
                /\ ~indexes'.some ]_vars

\* an engine was asked for before any resolution
NoEngineBeforeResolutionWitness ==
    /\ ~indexes.some
    /\ last = CallResult("generate_function_middleware", "panic")

(***************************************************************************)
(* C19, as stated: after transform_module_info has succeeded once and a    *)
(* later call has been rejected with the reuse panic (which happens while  *)
(* the guard of the indexes mutex is alive), a generate_function_middleware*)
(* call for a remaining function still succeeds.                           *)
(***************************************************************************)
ReResolutionHarmless ==
    indexes.some /\ indexes_poisoned /\ last.call = "generate_function_middleware"
       => last.result = "ok"

(***************************************************************************)
(* C19, amended: a transform_module_info call on a resolved binding ends   *)
(* in a panic, leaves the recorded indices and the engines already built   *)
(* as they are (they hold the indices first resolved), and poisons the     *)
(* indexes mutex for good; from then on every generate_function_middleware *)
(* call for a remaining function panics and builds no engine.              *)
(***************************************************************************)
ReResolutionPoisons ==
    /\ [](\A f \in DOMAIN engines : indexes.some /\ engines[f].indexes = indexes.value)
    /\ [][ /\ (indexes.some /\ last'.call = "transform_module_info"
                 => /\ last'.result = "panic"
                    /\ indexes' = indexes
                    /\ engines' = engines
                    /\ indexes_poisoned')
           /\ (indexes_poisoned => indexes_poisoned')
           /\ (indexes.some /\ indexes_poisoned
                  /\ last'.call = "generate_function_middleware"
                 => /\ last'.result = "panic"
                    /\ engines' = engines
                    /\ indexes' = indexes) ]_vars

\* an engine was built, a second resolution was rejected, and the engine of a
\* remaining function was refused
ReResolutionPoisonsWitness ==
    /\ indexes.some
    /\ indexes_poisoned
    /\ engines # << >>
    /\ DOMAIN engines # Fns
    /\ last = CallResult("generate_function_middleware", "panic")

(***************************************************************************)
(* C13. Concurrent registration is atomic: with several workers feeding    *)
(* different functions against the one store, in every interleaving, a     *)
(* worker is between lock() and the drop of the guard only while it holds  *)
(* the store's mutex, so at most one is; every change of the store is one  *)
(* whole register_block of the holder's accumulator; the store holds       *)
(* exactly the blocks registered so far, none lost; and once every call    *)
(* has returned it holds (absent collision) exactly the distinct closed    *)
(* bodies, each once under its hash, whatever the interleaving was.        *)
(***************************************************************************)
InCriticalSection(w) == At(w, "feed_locked") \/ At(w, "feed_registered")

InNoCall(w) == worker[w] = Idle \/ worker[w] = Panicked

Quiescent == \A w \in Fns : InNoCall(w)

RegisteredBlocks == UNION { Range(registered[f]) : f \in Fns }

AtomicRegistration ==
    /\ [](\A w \in Fns : InCriticalSection(w) => block_store_lock = Some(w))
    /\ [](StoredBlocks = RegisteredBlocks)
    /\ [](NoCollision(RegisteredBlocks) =>
            /\ len(block_store) = Cardinality(RegisteredBlocks)
            /\ \A h \in DOMAIN block_store : get_hash(block_store[h]) = h)
    /\ [](Quiescent /\ NoCollision(ClosedBodies) =>
            /\ StoredBlocks = ClosedBodies
            /\ len(block_store) = Cardinality(ClosedBodies))
    /\ [][ block_store' # block_store =>
             \E w \in Fns :
                /\ block_store_lock = Some(w)
                /\ block_store_lock' = Some(w)
                /\ At(w, "feed_locked")
                /\ block_store' =
                      register_block(block_store, engines[w].accumulated_ops).store ]_vars

\* one worker holds the guard with its block registered while another waits
\* at lock() to register a different block
AtomicRegistrationWitness ==
    \E v, w \in Fns :
        /\ At(v, "feed_registered")
        /\ At(w, "feed_lock")
        /\ engines[w].accumulated_ops \notin StoredBlocks

(***************************************************************************)
(* C20. Lock progress: no worker holds the guards of both mutexes (block   *)
(* store, binding indexes) at once; a worker that is in no call holds no   *)
(* guard, and a guard is held only by a worker inside the call that took   *)
(* it; and when the scheduler is fair every call a worker has begun (feed, *)
(* generate_function_middleware or transform_module_info) returns or       *)
(* unwinds: no worker waits for ever, with any number of workers.          *)
(***************************************************************************)
HoldsStore(w) == block_store_lock = Some(w)

HoldsIndexes(w) == indexes_lock = Some(w)

LockProgress ==
    /\ [](\A w \in Fns : ~(HoldsStore(w) /\ HoldsIndexes(w)))
    /\ [](\A w \in Fns :
            /\ HoldsStore(w) <=> InCriticalSection(w)
            /\ HoldsIndexes(w) <=> (At(w, "transform_locked") \/ At(w, "generate_locked")))
    /\ \A w \in Fns : (~InNoCall(w)) ~> InNoCall(w)

\* one worker waits at lock() for the store while another, just past its own
\* lock(), holds it
LockProgressWitness ==
    \E v, w \in Fns :
        /\ v # w
        /\ HoldsStore(v)
        /\ At(v, "feed_locked")
        /\ At(w, "feed_lock")

====
